---- MODULE Spec2Model ----
(***************************************************************************)
(* A model of the GWAS Catalog adapter (src/server.py, src/utils.py).      *)
(*                                                                         *)
(* The server is single-threaded and synchronous: one tool call is handled *)
(* from start to end before the next, so every operation is one action.    *)
(* What outlives a call is the spill directory on the filesystem, the log  *)
(* of GET requests the upstream service has seen with its responses, and   *)
(* the process environment (TEST_OUTPUT_SUCCESS_DIR).                      *)
(*                                                                         *)
(* Python values are tagged records, so that isinstance() tests and        *)
(* truthiness can be evaluated as the code evaluates them:                 *)
(*   None, Bool(b), Num(m, e) (the number m * 10^e, negative when m < 0),  *)
(*   Str(s) (s a sequence of one-character strings), List(l), Dict(d).     *)
(* The response envelope and its metadata are records whose DOMAIN is the  *)
(* set of keys the Python dict holds.                                      *)
(***************************************************************************)
EXTENDS Integers, Sequences, FiniteSets, TLC

VARIABLES
    environ,   \* os.environ["TEST_OUTPUT_SUCCESS_DIR"]: None when unset, else Str
    files,     \* the filesystem: path [dir, name] -> document written there
    gets,      \* the sequence of GET requests issued to the upstream service
    resps,     \* the responses to them, in the same order
    call,      \* the operation last called and its arguments
    ret        \* what that call returned, or the exception it raised

vars == <<environ, files, gets, resps, call, ret>>

----------------------------------------------------------------------------
(* Bounds of the model *)

MaxLen == 3          \* longest item list handed to the Response Processor
MaxThreshold == 2    \* largest max_items_in_memory tried (the smallest is -1)
MaxAnnotLen == 1     \* longest item list handed to the Significance Annotator
MaxOpsLen == 2       \* longest item list an upstream body carries
MaxDepth == 2        \* deepest nesting of the values handed to _remove_links
MaxLinksLen == 1     \* longest list inside those values

----------------------------------------------------------------------------
(* Python values *)

None == [t |-> "none"]
Bool(b) == [t |-> "bool", b |-> b]
Num(m, e) == [t |-> "num", m |-> m, e |-> e]
Str(s) == [t |-> "str", s |-> s]
List(l) == [t |-> "list", l |-> l]
Dict(d) == [t |-> "dict", d |-> d]

\* bool(v): Python truthiness
Truthy(v) ==
    CASE v.t = "none" -> FALSE
      [] v.t = "bool" -> v.b
      [] v.t = "num"  -> v.m # 0
      [] v.t = "str"  -> v.s # <<>>
      [] v.t = "list" -> v.l # <<>>
      [] v.t = "dict" -> DOMAIN v.d # {}

\* a or b
PyOr(a, b) == IF Truthy(a) THEN a ELSE b

\* d.get(k, default) on the mapping d of a dict
GetOr(d, k, default) == IF k \in DOMAIN d THEN d[k] ELSE default

\* d.get(k)
Get(d, k) == GetOr(d, k, None)

\* d[k] = v
SetKey(d, k, v) == (k :> v) @@ d

\* d.update(u)
Update(d, u) == u @@ d

Min(a, b) == IF a <= b THEN a ELSE b
Max(a, b) == IF a >= b THEN a ELSE b

\* s[:t], Python slicing of a list: a negative t counts from the end
PySlice(s, t) ==
    IF t >= 0 THEN SubSeq(s, 1, Min(t, Len(s)))
    ELSE SubSeq(s, 1, Max(Len(s) + t, 0))

\* s[i:], 1 <= i
Drop(s, i) == SubSeq(s, i, Len(s))

----------------------------------------------------------------------------
(* float(): the conversion _add_gwas_significance applies to a p-value.    *)
(* A float is [k |-> "fin", m, e] (the number m * 10^e), or "nan", "inf",  *)
(* "-inf". FloatOf(v) is [ok |-> FALSE] where float(v) raises ValueError   *)
(* or TypeError.                                                           *)

Digits == {"0", "1", "2", "3", "4", "5", "6", "7", "8", "9"}

DigitVal(c) ==
    CASE c = "0" -> 0 [] c = "1" -> 1 [] c = "2" -> 2 [] c = "3" -> 3
      [] c = "4" -> 4 [] c = "5" -> 5 [] c = "6" -> 6 [] c = "7" -> 7
      [] c = "8" -> 8 [] c = "9" -> 9

AllDigits(s) == \A i \in DOMAIN s : s[i] \in Digits

RECURSIVE NatOf(_)
NatOf(s) == IF s = <<>> THEN 0 ELSE 10 * NatOf(SubSeq(s, 1, Len(s) - 1)) + DigitVal(s[Len(s)])

RECURSIVE Strip(_)
Strip(s) ==
    IF s = <<>> THEN s
    ELSE IF s[1] = " " THEN Strip(Drop(s, 2))
    ELSE IF s[Len(s)] = " " THEN Strip(SubSeq(s, 1, Len(s) - 1))
    ELSE s

\* the positions of the characters of cs in s
Positions(s, cs) == {i \in DOMAIN s : s[i] \in cs}

Fail == [ok |-> FALSE]
Fin(m, e) == [ok |-> TRUE, k |-> "fin", m |-> m, e |-> e]

\* [sign] digits, the exponent of a float literal
ParseExponent(s) ==
    LET signed == s # <<>> /\ s[1] \in {"+", "-"}
        body == IF signed THEN Drop(s, 2) ELSE s
    IN  IF body = <<>> \/ ~AllDigits(body) THEN Fail
        ELSE [ok |-> TRUE, v |-> IF signed /\ s[1] = "-" THEN 0 - NatOf(body) ELSE NatOf(body)]

\* digits [. digits] | . digits, the unsigned mantissa: its digits and its scale
ParseMantissa(s) ==
    LET dots == Positions(s, {"."})
    IN  IF Cardinality(dots) > 1 THEN Fail
        ELSE LET dot == IF dots = {} THEN Len(s) + 1 ELSE CHOOSE i \in dots : TRUE
                 int == SubSeq(s, 1, dot - 1)
                 frac == Drop(s, dot + 1)
             IN  IF int \o frac = <<>> \/ ~AllDigits(int \o frac) THEN Fail
                 ELSE [ok |-> TRUE, m |-> NatOf(int \o frac), scale |-> Len(frac)]

\* float(s) of a string
ParseFloat(str) ==
    LET s == Strip(str)
        signed == s # <<>> /\ s[1] \in {"+", "-"}
        neg == signed /\ s[1] = "-"
        body == IF signed THEN Drop(s, 2) ELSE s
        es == Positions(body, {"e", "E"})
    IN  IF body = <<"n", "a", "n">> THEN [ok |-> TRUE, k |-> "nan"]
        ELSE IF body = <<"i", "n", "f">> THEN [ok |-> TRUE, k |-> IF neg THEN "-inf" ELSE "inf"]
        ELSE IF Cardinality(es) > 1 THEN Fail
        ELSE LET epos == IF es = {} THEN Len(body) + 1 ELSE CHOOSE i \in es : TRUE
                 mant == ParseMantissa(SubSeq(body, 1, epos - 1))
                 expo == IF es = {} THEN [ok |-> TRUE, v |-> 0]
                         ELSE ParseExponent(Drop(body, epos + 1))
             IN  IF ~mant.ok \/ ~expo.ok THEN Fail
                 ELSE Fin(IF neg THEN 0 - mant.m ELSE mant.m, expo.v - mant.scale)

\* float(v) of any value
FloatOf(v) ==
    CASE v.t = "num"  -> Fin(v.m, v.e)
      [] v.t = "bool" -> Fin(IF v.b THEN 1 ELSE 0, 0)
      [] v.t = "str"  -> ParseFloat(v.s)
      [] OTHER        -> Fail

RECURSIVE Pow10(_)
Pow10(n) == IF n <= 0 THEN 1 ELSE 10 * Pow10(n - 1)

\* Genome-wide significance threshold, 5e-8
GWAS_THRESHOLD == [m |-> 5, e |-> -8]

RECURSIVE NumDigits(_)
\* The number of decimal digits of m > 0
NumDigits(m) == IF m < 10 THEN 1 ELSE 1 + NumDigits(m \div 10)

\* m1 * 10^e1 <= m2 * 10^e2 for m1, m2 > 0: by the place of the leading digit,
\* and by the digits when the leading digits stand at the same place
LeqPositive(m1, e1, m2, e2) ==
    LET lead1 == NumDigits(m1) + e1
        lead2 == NumDigits(m2) + e2
        lo == Min(e1, e2)
    IN  IF lead1 # lead2 THEN lead1 < lead2
        ELSE m1 * Pow10(e1 - lo) <= m2 * Pow10(e2 - lo)

\* m1 * 10^e1 <= m2 * 10^e2
LeqDecimal(m1, e1, m2, e2) ==
    IF m1 <= 0 /\ m2 >= 0 THEN TRUE
    ELSE IF m1 >= 0 /\ m2 <= 0 THEN FALSE
    ELSE IF m1 > 0 THEN LeqPositive(m1, e1, m2, e2)
    ELSE LeqPositive(0 - m2, e2, 0 - m1, e1)

\* p <= GWAS_THRESHOLD, p a float: every comparison with nan is False
LeqThreshold(p) ==
    CASE p.k = "nan"  -> FALSE
      [] p.k = "inf"  -> FALSE
      [] p.k = "-inf" -> TRUE
      [] p.k = "fin"  -> LeqDecimal(p.m, p.e, GWAS_THRESHOLD.m, GWAS_THRESHOLD.e)

----------------------------------------------------------------------------
(* src/utils.py *)

\* Variant: link stripping that does not descend into the values it keeps
_remove_links_Shallow(obj) ==
    IF obj.t = "dict"
    THEN Dict([k \in DOMAIN obj.d \ {"_links"} |-> obj.d[k]])
    ELSE obj

RECURSIVE _remove_links(_)
\* A new value without the '_links' entries, at every depth
_remove_links(obj) ==
    IF obj.t = "dict"
    THEN Dict([k \in DOMAIN obj.d \ {"_links"} |-> _remove_links(obj.d[k])])
    ELSE IF obj.t = "list"
    THEN List([i \in DOMAIN obj.l |-> _remove_links(obj.l[i])])
    ELSE obj

TmpDir == Str(<<"/", "t", "m", "p">>)

\* os.environ.get("TEST_OUTPUT_SUCCESS_DIR", "/tmp")
get_default_output_dir(env) == IF env.t = "none" THEN TmpDir ELSE env

\* The document json.dump writes: the request URL and the items it is given
SpillDocument(resp_url, items) == [request_url |-> resp_url, items |-> items]

\* os.path.join(output_dir, "large_result_<uuid4 hex>.json")
SpillPath(output_dir, uuid) == [dir |-> output_dir, name |-> <<"large_result_", uuid, ".json">>]

\* write_large_result_to_file on the filesystem fs. uuid is the token uuid4()
\* draws; writable is FALSE when os.makedirs, open or the write raises OSError,
\* which the function raises again.
write_large_result_to_file(fs, output_dir, resp_url, items, uuid, writable) ==
    IF writable
    THEN [raised |-> FALSE,
          fpath  |-> SpillPath(output_dir, uuid),
          files  |-> (SpillPath(output_dir, uuid) :> SpillDocument(resp_url, items)) @@ fs]
    ELSE [raised |-> TRUE, files |-> fs]

\* Variant: an empty response that reports one result and is not complete
create_empty_response_Incomplete(request_url, max_items_in_memory, return_only_sig) ==
    [request_url |-> request_url,
     items       |-> <<>>,
     total_count |-> 1,
     is_complete |-> FALSE,
     metadata    |-> [subset_size         |-> 0,
                      max_items_in_memory |-> max_items_in_memory,
                      return_only_sig     |-> return_only_sig]]

create_empty_response(request_url, max_items_in_memory, return_only_sig) ==
    [request_url |-> request_url,
     items       |-> <<>>,
     total_count |-> 0,
     is_complete |-> TRUE,
     metadata    |-> [subset_size         |-> 0,
                      max_items_in_memory |-> max_items_in_memory,
                      return_only_sig     |-> return_only_sig]]

----------------------------------------------------------------------------
(* src/server.py: the Significance Annotator and the Response Processor *)

\* What a call leaves in ret
NoCall == [kind |-> "none"]
Returned(v) == [kind |-> "return", value |-> v]
Raised(e) == [kind |-> "raise", exc |-> e]

\* The flag of one item: item.get('pvalue') or item.get('p_value'), float() of
\* it, ValueError and TypeError caught
SignificanceFlag(item) ==
    LET p_str == PyOr(Get(item.d, "pvalue"), Get(item.d, "p_value"))
    IN  IF p_str.t # "none"
        THEN LET p == FloatOf(p_str)
             IN  IF p.ok THEN Bool(LeqThreshold(p)) ELSE None
        ELSE None

\* The items with item['is_gwas_significant'] set on each (in place, in the code)
_add_gwas_significance(items) ==
    IF items = <<>> THEN items
    ELSE [i \in DOMAIN items |->
            Dict(SetKey(items[i].d, "is_gwas_significant", SignificanceFlag(items[i])))]

\* item.get("is_gwas_significant", False), as a condition
FlaggedSignificant(item) == Truthy(GetOr(item.d, "is_gwas_significant", Bool(FALSE)))

RECURSIVE FilterSignificant_NotFalse(_)
\* Variant: a filter that drops only the records flagged false, so that a
\* null flag passes
FilterSignificant_NotFalse(items) ==
    IF items = <<>> THEN <<>>
    ELSE IF GetOr(items[1].d, "is_gwas_significant", Bool(FALSE)) # Bool(FALSE)
         THEN <<items[1]>> \o FilterSignificant_NotFalse(Drop(items, 2))
         ELSE FilterSignificant_NotFalse(Drop(items, 2))

RECURSIVE FilterSignificant(_)
\* [item for item in items if item.get("is_gwas_significant", False)]
FilterSignificant(items) ==
    IF items = <<>> THEN <<>>
    ELSE IF FlaggedSignificant(items[1])
         THEN <<items[1]>> \o FilterSignificant(Drop(items, 2))
         ELSE FilterSignificant(Drop(items, 2))

\* sum(1 for item in items if item.get("is_gwas_significant", False))
SignificantCount(items) == Cardinality({i \in DOMAIN items : FlaggedSignificant(items[i])})

\* Variant: force_no_file overrides force_to_file as well
SpillDecision_NoFileWins(total_items_aft_process, max_items_in_memory, force_to_file, force_no_file) ==
    (total_items_aft_process > max_items_in_memory \/ force_to_file) /\ ~force_no_file

\* The condition under which the processor writes the result to a file
SpillDecision(total_items_aft_process, max_items_in_memory, force_to_file, force_no_file) ==
    (total_items_aft_process > max_items_in_memory /\ ~force_no_file) \/ force_to_file

\* Variant: a spilled envelope that holds every item
SpillSubset_All(items, max_items_in_memory) == items

\* The items a spilled envelope holds: items[:max_items_in_memory]
SpillSubset(items, max_items_in_memory) == PySlice(items, max_items_in_memory)

\* Variant: subset_size taken to be the threshold
SpillSubsetSize_Threshold(items, max_items_in_memory) == max_items_in_memory

\* metadata["subset_size"] of a spilled envelope: len(items[:max_items_in_memory])
SpillSubsetSize(items, max_items_in_memory) == Len(PySlice(items, max_items_in_memory))

\* The metadata gathered before the size decision
ProcessMetadata(a, annotated) ==
    LET base == [subset_size |-> 0, max_items_in_memory |-> a.max_items_in_memory]
    IN  IF a.skip_gwas_significance THEN base
        ELSE Update(base, [return_only_sig   |-> a.return_only_sig,
                           total_items       |-> Len(a.items),
                           significant_items |-> SignificantCount(annotated)])

\* The envelope returned when the filter leaves nothing
EmptyAfterFilter(a, metadata) ==
    LET empty_resp == create_empty_response(a.request_url, a.max_items_in_memory, a.return_only_sig)
    IN  [empty_resp EXCEPT !.metadata = Update(@, metadata)]

\* The envelope returned for an empty input
EmptyInput(a) ==
    LET empty_resp == create_empty_response(a.request_url, a.max_items_in_memory, a.return_only_sig)
    IN  IF ~a.skip_gwas_significance
        THEN [empty_resp EXCEPT !.metadata =
                 Update(@, [total_items |-> 0, significant_items |-> 0])]
        ELSE empty_resp

\* The envelope of a spilled result, output_file the path the spiller returned
SpilledEnvelope(a, items, metadata, output_file) ==
    [request_url             |-> a.request_url,
     items                   |-> SpillSubset(items, a.max_items_in_memory),
     total_items_aft_process |-> Len(items),
     is_complete             |-> FALSE,
     metadata                |-> SetKey(SetKey(metadata, "subset_size",
                                               SpillSubsetSize(items, a.max_items_in_memory)),
                                        "output_file", output_file)]

\* The envelope of a result returned whole
InlineEnvelope(a, items, metadata) ==
    [request_url             |-> a.request_url,
     items                   |-> items,
     total_items_aft_process |-> Len(items),
     is_complete             |-> TRUE,
     metadata                |-> SetKey(metadata, "subset_size", Len(items))]

\* Variant: only the returned subset is written
SpilledItems_Subset(items, max_items_in_memory) == PySlice(items, max_items_in_memory)

\* The items written to the spill file: the whole surviving list
SpilledItems(items, max_items_in_memory) == items

\* The processor once the spiller has answered w
ProcessSpilled(a, items, metadata, w) ==
    IF w.raised THEN [ret |-> Raised("OSError"), files |-> w.files]
    ELSE [ret   |-> Returned(SpilledEnvelope(a, items, metadata, w.fpath)),
          files |-> w.files]

\* Variant: a processor with a memory of earlier calls, which does not spill
\* again the result of a request whose spill file is already there
ProcessSurviving_Remembering(a, items, metadata, fs, env, uuid, writable) ==
    IF SpillDecision(Len(items), a.max_items_in_memory, a.force_to_file, a.force_no_file)
       /\ \A f \in DOMAIN fs : fs[f].request_url # a.request_url
    THEN ProcessSpilled(a, items, metadata,
                        write_large_result_to_file(
                            fs, PyOr(a.output_dir, get_default_output_dir(env)),
                            a.request_url, SpilledItems(items, a.max_items_in_memory),
                            uuid, writable))
    ELSE [ret |-> Returned(InlineEnvelope(a, items, metadata)), files |-> fs]

\* The processor from the size decision on, items the surviving list
ProcessSurviving(a, items, metadata, fs, env, uuid, writable) ==
    IF SpillDecision(Len(items), a.max_items_in_memory, a.force_to_file, a.force_no_file)
    THEN ProcessSpilled(a, items, metadata,
                        write_large_result_to_file(
                            fs, PyOr(a.output_dir, get_default_output_dir(env)),
                            a.request_url, SpilledItems(items, a.max_items_in_memory),
                            uuid, writable))
    ELSE [ret |-> Returned(InlineEnvelope(a, items, metadata)), files |-> fs]

\* return_only_sig takes effect unless the significance step is skipped
Filtering(a) == ~a.skip_gwas_significance /\ a.return_only_sig

\* Variant: a processor without the early return for a filter that leaves
\* nothing, so that an empty list goes on to the size decision
ProcessKept_NoEarlyReturn(a, kept, metadata, fs, env, uuid, writable) ==
    ProcessSurviving(a, IF a.remove_links THEN _remove_links(List(kept)).l ELSE kept,
                     metadata, fs, env, uuid, writable)

\* The processor after the filter, kept what the filter left
ProcessKept(a, kept, metadata, fs, env, uuid, writable) ==
    IF Filtering(a) /\ kept = <<>>
    THEN [ret |-> Returned(EmptyAfterFilter(a, metadata)), files |-> fs]
    ELSE ProcessSurviving(a, IF a.remove_links THEN _remove_links(List(kept)).l ELSE kept,
                          metadata, fs, env, uuid, writable)

\* The processor after the significance step, annotated the items it left
ProcessAnnotated(a, annotated, fs, env, uuid, writable) ==
    ProcessKept(a, IF Filtering(a) THEN FilterSignificant(annotated) ELSE annotated,
                ProcessMetadata(a, annotated), fs, env, uuid, writable)

\* _process_api_response(**a) on the filesystem fs with the environment env:
\* what it returns or raises, and the filesystem it leaves
_process_api_response(a, fs, env, uuid, writable) ==
    IF a.items = <<>> THEN [ret |-> Returned(EmptyInput(a)), files |-> fs]
    ELSE ProcessAnnotated(a, IF a.skip_gwas_significance THEN a.items
                             ELSE _add_gwas_significance(a.items),
                          fs, env, uuid, writable)

----------------------------------------------------------------------------
(* src/server.py: the transport, the validator and the extractor *)

\* Success status code
SUCCESS_STATUS_CODE == 200

\* Maximum number of items per request
GWAS_API_PAGE_SIZE == 1000

\* An effective URL: the API, the resource path {resource}/{id}/{sub} (id None
\* and sub "" where the path has none) and the query parameters
Url(api, resource, id, sub, params) ==
    [t |-> "url", api |-> api, resource |-> resource, id |-> id, sub |-> sub, params |-> params]

\* A body that is not JSON: resp.json() raises on it
NotJson == [t |-> "notjson"]

\* requests.get(url, params): what the upstream service answers, with the
\* effective URL
Response(url, upstream) ==
    [status_code |-> upstream.status_code, url |-> url, body |-> upstream.body]

\* A parameter the caller left out, and the value it then defaults to
Omitted == [t |-> "omitted"]
Default(v, d) == IF v.t = "omitted" THEN d ELSE v

EfoPrefix == <<"E", "F", "O", "_">>

\* s.startswith(p)
StartsWith(s, p) == Len(s) >= Len(p) /\ SubSeq(s, 1, Len(p)) = p

\* The character U+00B2 (superscript two), one of the characters other than
\* 0..9 that str.isdigit() accepts; float() rejects it
SuperscriptTwo == "^2"

\* s.isdigit(), over the characters the model draws
IsDigitStr(s) == s # <<>> /\ \A i \in DOMAIN s : s[i] \in Digits \cup {SuperscriptTwo}

\* validate_efo_id: TRUE when it returns, FALSE when it raises ValueError
validate_efo_id(efo_id) ==
    /\ efo_id.t = "str"
    /\ ~(~StartsWith(efo_id.s, EfoPrefix) \/ ~IsDigitStr(Drop(efo_id.s, 5)))

\* The characters of a mapping key, for the digit-string keys the upstream
\* bodies of the model carry; every other key of the model holds a letter
Spell(k) ==
    CASE k = "0"  -> <<"0">>
      [] k = "1"  -> <<"1">>
      [] k = "2"  -> <<"2">>
      [] k = "10" -> <<"1", "0">>
      [] k = "^2" -> <<SuperscriptTwo>>
      [] OTHER    -> <<"k">>

\* A dict whose iteration order matters: its keys in insertion order
OrderedDict(ks, d) == [t |-> "dict", d |-> d, order |-> ks]

RECURSIVE SomeOrder(_)
SomeOrder(S) ==
    IF S = {} THEN <<>> ELSE LET x == CHOOSE y \in S : TRUE IN <<x>> \o SomeOrder(S \ {x})

\* Variant: the values against their iteration order
Values_Reversed(v) ==
    LET ks == IF "order" \in DOMAIN v THEN v.order ELSE SomeOrder(DOMAIN v.d)
    IN  [i \in DOMAIN ks |-> v.d[ks[Len(ks) + 1 - i]]]

\* list(v.values()): the values in iteration order
Values(v) ==
    LET ks == IF "order" \in DOMAIN v THEN v.order ELSE SomeOrder(DOMAIN v.d)
    IN  [i \in DOMAIN ks |-> v.d[ks[i]]]

_extract_embedded_items(data, key) ==
    IF data.t # "dict" THEN <<>>
    ELSE LET embedded == GetOr(data.d, "_embedded", Dict(<<>>))
         IN  IF embedded.t # "dict" THEN <<>>
             ELSE LET items == GetOr(embedded.d, key, List(<<>>))
                  IN  IF items.t = "dict" /\ \A k \in DOMAIN items.d : IsDigitStr(Spell(k))
                      THEN Values(items)
                      ELSE IF items.t = "list" THEN items.l ELSE <<>>

----------------------------------------------------------------------------
(* src/server.py: the list-style operations. Each takes its arguments o,   *)
(* the answer of the upstream service, the filesystem and the environment, *)
(* and gives what it returns or raises, the filesystem it leaves and the   *)
(* GET requests it issued.                                                 *)

\* From the response on: the empty envelope on a non-success status, else the
\* extracted items through the Response Processor
ListResult(resp, key, o, return_only_sig, output_dir, skip, fs, env, uuid, writable) ==
    IF resp.status_code # SUCCESS_STATUS_CODE
    THEN [ret   |-> Returned(create_empty_response(resp.url, o.max_items_in_memory, return_only_sig)),
          files |-> fs]
    ELSE IF resp.body.t = "notjson" THEN [ret |-> Raised("JSONDecodeError"), files |-> fs]
    ELSE _process_api_response(
             [items                  |-> _extract_embedded_items(resp.body, key),
              request_url            |-> resp.url,
              max_items_in_memory    |-> o.max_items_in_memory,
              return_only_sig        |-> return_only_sig,
              remove_links           |-> o.remove_links,
              output_dir             |-> output_dir,
              force_to_file          |-> o.force_to_file,
              force_no_file          |-> o.force_no_file,
              skip_gwas_significance |-> skip],
             fs, env, uuid, writable)

\* One GET and its result
OneGet(url, r) == [ret |-> r.ret, files |-> r.files, gets |-> <<url>>]

\* An exception before any request
RaisedEarly(exc, fs) == [ret |-> Raised(exc), files |-> fs, gets |-> <<>>]

search_variants_in_region(o, upstream, fs, env, uuid, writable) ==
    LET region == [size       |-> Num(GWAS_API_PAGE_SIZE, 0),
                   chromosome |-> o.chromosome,
                   bp_start   |-> o.start,
                   bp_end     |-> o.end]
    IN  IF Truthy(o.efo_id) /\ ~validate_efo_id(o.efo_id) THEN RaisedEarly("ValueError", fs)
        ELSE LET params == IF Truthy(o.efo_id) THEN SetKey(region, "efoTrait", o.efo_id)
                           ELSE region
                 url == Url("catalog", "associations", None, "", params)
             IN  OneGet(url, ListResult(Response(url, upstream), "associations", o,
                                        o.return_only_sig, Default(o.output_dir, TmpDir),
                                        FALSE, fs, env, uuid, writable))

RECURSIVE BatchFrom(_, _, _, _, _, _, _)
\* The loop of get_variants_from_efo_ids from its i-th identifier on; an
\* exception leaves the loop and the function
BatchFrom(o, i, upstreams, uuids, writables, env, acc) ==
    IF i > Len(o.efo_ids) THEN [ret |-> Returned(acc.results), files |-> acc.files, gets |-> acc.gets]
    ELSE LET efo_id == o.efo_ids[i]
             url == Url("catalog", "associations", None, "",
                        [efoTrait |-> efo_id, size |-> Num(GWAS_API_PAGE_SIZE, 0)])
             \* the rest of the loop, r being what this iteration gave
             Rest(r) ==
                 IF r.ret.kind = "raise"
                 THEN [ret |-> r.ret, files |-> r.files, gets |-> Append(acc.gets, url)]
                 ELSE BatchFrom(o, i + 1, upstreams, uuids, writables, env,
                                [results |-> (efo_id :> r.ret.value) @@ acc.results,
                                 files   |-> r.files,
                                 gets    |-> Append(acc.gets, url)])
         IN  CHOOSE out \in {Rest(r) : r \in {ListResult(Response(url, upstreams[i]), "associations", o,
                                                        o.return_only_sig, Default(o.output_dir, TmpDir),
                                                        FALSE, acc.files, env, uuids[i], writables[i])}} : TRUE

\* Variant: each identifier is validated inside the request loop, right before
\* its own request, so the identifiers ahead of a malformed one are requested
get_variants_from_efo_ids_Lazy(o, upstreams, fs, env, uuids, writables) ==
    LET bad == {i \in DOMAIN o.efo_ids : ~validate_efo_id(o.efo_ids[i])}
        start == [results |-> <<>>, files |-> fs, gets |-> <<>>]
    IN  IF bad = {} THEN BatchFrom(o, 1, upstreams, uuids, writables, env, start)
        ELSE LET first == CHOOSE i \in bad : \A j \in bad : i <= j
                 done == BatchFrom([o EXCEPT !.efo_ids = SubSeq(@, 1, first - 1)], 1,
                                   upstreams, uuids, writables, env, start)
             IN  IF done.ret.kind = "raise" THEN done
                 ELSE [ret |-> Raised("ValueError"), files |-> done.files, gets |-> done.gets]

\* upstreams, uuids and writables hold one entry for each identifier
get_variants_from_efo_ids(o, upstreams, fs, env, uuids, writables) ==
    IF \E i \in DOMAIN o.efo_ids : ~validate_efo_id(o.efo_ids[i])
    THEN RaisedEarly("ValueError", fs)
    ELSE BatchFrom(o, 1, upstreams, uuids, writables, env,
                   [results |-> <<>>, files |-> fs, gets |-> <<>>])

\* a < b for floats: every comparison with nan is False
FloatLess(a, b) ==
    CASE a.k = "nan" \/ b.k = "nan" -> FALSE
      [] a.k = "-inf" -> b.k # "-inf"
      [] a.k = "inf"  -> FALSE
      [] b.k = "inf"  -> TRUE
      [] b.k = "-inf" -> FALSE
      [] OTHER        -> ~LeqDecimal(b.m, b.e, a.m, a.e)

\* key=lambda x: float(x.get("pvalue", float("inf")))
RankingKey(x) ==
    IF "pvalue" \in DOMAIN x.d THEN FloatOf(x.d["pvalue"]) ELSE [ok |-> TRUE, k |-> "inf"]

\* What float() raises on the first key of s it cannot convert: ValueError on
\* a string, TypeError on any other value
FloatError(s) ==
    LET bad == {i \in DOMAIN s : ~RankingKey(s[i]).ok}
        first == CHOOSE i \in bad : \A j \in bad : i <= j
    IN  IF s[first].d["pvalue"].t = "str" THEN "ValueError" ELSE "TypeError"

\* x put into the sorted list s behind every element that is not greater
InsertByKey(s, x) ==
    LET later == {i \in DOMAIN s : FloatLess(RankingKey(x), RankingKey(s[i]))}
        at == IF later = {} THEN Len(s) + 1 ELSE CHOOSE i \in later : \A j \in later : i <= j
    IN  SubSeq(s, 1, at - 1) \o <<x>> \o Drop(s, at)

RECURSIVE SortedByPvalue(_)
\* sorted(s, key=RankingKey): ascending and stable
SortedByPvalue(s) ==
    IF s = <<>> THEN <<>>
    ELSE InsertByKey(SortedByPvalue(SubSeq(s, 1, Len(s) - 1)), s[Len(s)])

\* [v for v in items if v.get("pvalue")]
WithPvalue(items) == SelectSeq(items, LAMBDA v : Truthy(Get(v.d, "pvalue")))

\* Variant: the first top_n in the order of the response
TopRanked_Unsorted(items, top_n) == PySlice(WithPvalue(items), top_n)

\* sorted(...)[:top_n]
TopRanked(items, top_n) == PySlice(SortedByPvalue(WithPvalue(items)), top_n)

trait_variant_ranking(o, upstream, fs, env, uuid, writable) ==
    IF ~validate_efo_id(o.efo_id) THEN RaisedEarly("ValueError", fs)
    ELSE
    LET url == Url("catalog", "associations", None, "",
                   [efoTrait |-> o.efo_id, size |-> Num(GWAS_API_PAGE_SIZE, 0)])
        resp == Response(url, upstream)
        empty == [ret   |-> Returned(create_empty_response(url, o.max_items_in_memory, o.return_only_sig)),
                  files |-> fs]
    IN  IF resp.status_code # SUCCESS_STATUS_CODE THEN OneGet(url, empty)
        ELSE IF resp.body.t = "notjson" THEN OneGet(url, [ret |-> Raised("JSONDecodeError"), files |-> fs])
        ELSE
        LET items == _extract_embedded_items(resp.body, "associations")
            ranked == WithPvalue(items)
        IN  IF items = <<>> THEN OneGet(url, empty)
            ELSE IF \E i \in DOMAIN ranked : ~RankingKey(ranked[i]).ok
            THEN OneGet(url, [ret |-> Raised(FloatError(ranked)), files |-> fs])
            ELSE OneGet(url, _process_api_response(
                     [items                  |-> TopRanked(items, o.top_n),
                      request_url            |-> url,
                      max_items_in_memory    |-> o.max_items_in_memory,
                      return_only_sig        |-> o.return_only_sig,
                      remove_links           |-> o.remove_links,
                      output_dir             |-> Default(o.output_dir, TmpDir),
                      force_to_file          |-> o.force_to_file,
                      force_no_file          |-> o.force_no_file,
                      skip_gwas_significance |-> FALSE],
                     fs, env, uuid, writable))

get_study_associations(o, upstream, fs, env, uuid, writable) ==
    LET url == Url("catalog", "studies", o.studyId, "associations", <<>>)
    IN  OneGet(url, ListResult(Response(url, upstream), "associations", o,
                               o.return_only_sig, Default(o.output_dir, TmpDir),
                               FALSE, fs, env, uuid, writable))

get_trait_studies(o, upstream, fs, env, uuid, writable) ==
    LET url == Url("catalog", "efoTraits", o.efoId, "studies", <<>>)
    IN  OneGet(url, ListResult(Response(url, upstream), "studies", o,
                               FALSE, Default(o.output_dir, TmpDir),
                               TRUE, fs, env, uuid, writable))

get_trait_associations(o, upstream, fs, env, uuid, writable) ==
    LET url == Url("catalog", "efoTraits", o.efoId, "associations", <<>>)
    IN  OneGet(url, ListResult(Response(url, upstream), "associations", o,
                               o.return_only_sig, Default(o.output_dir, TmpDir),
                               FALSE, fs, env, uuid, writable))

get_region_trait_associations(o, upstream, fs, env, uuid, writable) ==
    IF ~validate_efo_id(o.efo_id) THEN RaisedEarly("ValueError", fs)
    ELSE LET url == Url("summary-statistics", "chromosomes", o.chromosome, "associations",
                        [bp_lower |-> o.start, bp_upper |-> o.end, efoTrait |-> o.efo_id])
         IN  OneGet(url, ListResult(Response(url, upstream), "associations", o,
                                    o.return_only_sig, Default(o.output_dir, None),
                                    FALSE, fs, env, uuid, writable))

\* The error object of a call without a variant identifier
MissingVariantId(variantId) ==
    Dict([error    |-> Str(<<"Variant ID is required.">>),
          function |-> Str(<<"get_associations_from_variant">>),
          args     |-> Dict([variantId |-> variantId])])

get_associations_from_variant(o, upstream, fs, env, uuid, writable) ==
    IF ~Truthy(o.variantId)
    THEN [ret |-> Returned(MissingVariantId(o.variantId)), files |-> fs, gets |-> <<>>]
    ELSE LET url == Url("catalog", "singleNucleotidePolymorphisms", o.variantId, "associations", <<>>)
         IN  OneGet(url, ListResult(Response(url, upstream), "associations", o,
                                    o.return_only_sig, Default(o.output_dir, None),
                                    FALSE, fs, env, uuid, writable))

----------------------------------------------------------------------------
(* src/server.py: the single-object lookups; utils.format_error *)

\* For timestamp conversion: seconds to milliseconds
MILLISECONDS == 1000

\* resp.text of a body that is not JSON
RawText == Str(<<"<html>">>)

\* format_error(resp) at the time now (seconds): the upstream error body, or a
\* stand-in for a body that is not JSON, with status, request_url and timestamp
\* set on it; setting a key on a body that is no mapping raises TypeError
format_error(resp, now) ==
    LET err == IF resp.body.t = "notjson"
               THEN Dict([error |-> Str(<<"Invalid JSON">>), message |-> RawText])
               ELSE resp.body
    IN  IF err.t # "dict" THEN Raised("TypeError")
        ELSE Returned(Dict(SetKey(SetKey(SetKey(err.d,
                 "status", Num(resp.status_code, 0)),
                 "request_url", resp.url),
                 "timestamp", Num(now * MILLISECONDS, 0))))

\* _get_object(f"{resource}/{id}", remove_links)
_get_object(resource, id, remove_links, upstream, now) ==
    LET url == Url("catalog", resource, id, "", <<>>)
        resp == Response(url, upstream)
    IN  IF resp.status_code = SUCCESS_STATUS_CODE
        THEN IF resp.body.t = "notjson" THEN [ret |-> Raised("JSONDecodeError"), gets |-> <<url>>]
             ELSE LET data == IF resp.body.t = "dict"
                              THEN Dict(SetKey(SetKey(resp.body.d,
                                        "status", Num(resp.status_code, 0)),
                                        "request_url", resp.url))
                              ELSE resp.body
                  IN  [ret  |-> Returned(IF remove_links THEN _remove_links(data) ELSE data),
                       gets |-> <<url>>]
        ELSE [ret |-> format_error(resp, now), gets |-> <<url>>]

\* data with data[field] = id, when data is a dict without an "error" key
WithEcho(r, field, id) ==
    IF r.ret.kind = "return" /\ r.ret.value.t = "dict" /\ "error" \notin DOMAIN r.ret.value.d
    THEN [r EXCEPT !.ret = Returned(Dict(SetKey(r.ret.value.d, field, id)))]
    ELSE r

get_study(o, upstream, now) == _get_object("studies", o.studyId, o.remove_links, upstream, now)

get_association(o, upstream, now) ==
    WithEcho(_get_object("associations", o.associationId, o.remove_links, upstream, now),
             "association_id", o.associationId)

get_variant(o, upstream, now) ==
    _get_object("singleNucleotidePolymorphisms", o.variantId, o.remove_links, upstream, now)

get_trait(o, upstream, now) ==
    WithEcho(_get_object("efoTraits", o.efoId, o.remove_links, upstream, now),
             "trait_id", o.efoId)

----------------------------------------------------------------------------
(* The inputs the calls are drawn from *)

Links == Dict("self" :> Str(<<"h", "r", "e", "f">>))

\* Association records as the upstream service returns them
SigRecord == Dict(("pvalue" :> Str(<<"1", "e", "-", "1", "0">>)) @@ ("_links" :> Links))
NonSigRecord == Dict("pvalue" :> Str(<<"0", ".", "5">>))
NoPvalueRecord == Dict(("_links" :> Links)
                       @@ ("loci" :> List(<<Dict(("_links" :> Links) @@ ("id" :> Num(7, 0)))>>)))

Records == {SigRecord, NonSigRecord, NoPvalueRecord}

\* The values a p-value field may hold: numbers, numerals, and what float()
\* rejects
PvalueValues ==
    {None, Num(0, 0), Num(5, -8), Num(1, -7),
     Str(<<"0">>), Str(<<"5", "e", "-", "8">>), Str(<<"1", "E", "-", "1", "0">>),
     Str(<<"0", ".", "5">>), Str(<<" ", "1", "e", "-", "9">>), Str(<<"n", "a", "n">>),
     Str(<<"1", "e">>), Str(<<"a", "b", "c">>), Str(<<>>)}

AltPvalueValues == {None, Str(<<"1", "e", "-", "9">>), Str(<<"0", ".", "0", "1">>), Str(<<"-">>)}

\* Records with either, both or none of the fields pvalue and p_value
AnnotatorRecords ==
    {Dict(<<>>)}
    \cup {Dict("pvalue" :> v) : v \in PvalueValues}
    \cup {Dict("p_value" :> w) : w \in AltPvalueValues}
    \cup {Dict(("pvalue" :> v) @@ ("p_value" :> w)) : v \in PvalueValues, w \in AltPvalueValues}

\* The sequences over S of length at most n
SeqsUpTo(S, n) == UNION {[1..k -> S] : k \in 0..n}

ItemLists == SeqsUpTo(Records, MaxLen)

\* max_items_in_memory: the spec's positive thresholds, and 0 and -1
Thresholds == (0 - 1)..MaxThreshold

ProcessorUrl == Url("catalog", "associations", None, "", <<>>)

DataDir == Str(<<"/", "d", "a", "t", "a">>)
OverrideDir == Str(<<"/", "o", "u", "t">>)

\* output_dir as the processor receives it: None, or a directory
OutputDirs == {None, DataDir}

\* The tokens uuid4() may draw
Uuids == {"a3f1", "9c0e"}

\* A token no file of the filesystem carries yet: uuid4() does not repeat
Fresh(fs, uuid) == \A p \in DOMAIN fs : p.name[2] # uuid

\* Trait identifiers a caller may pass: two well-formed ones, and malformed ones
EfoA == Str(<<"E", "F", "O", "_", "0", "3">>)
EfoB == Str(<<"E", "F", "O", "_", "7">>)
EfoLetter == Str(<<"E", "F", "O", "_", "1", "2", "a">>)
EfoNoDigits == Str(<<"E", "F", "O", "_">>)
EfoLower == Str(<<"e", "f", "o", "_", "1">>)
EfoIds == {EfoA, EfoB, EfoLetter, EfoNoDigits, EfoLower, Str(<<>>), None}

\* The identifier lists of a batch call
EfoIdLists == {<<>>, <<EfoA>>, <<EfoLetter>>, <<EfoA, EfoB>>, <<EfoB, EfoA>>, <<EfoA, EfoA>>,
               <<EfoA, EfoLetter>>, <<EfoLower, EfoA>>}

StudyIds == {Str(<<"G", "C", "S", "T", "1">>)}
AssociationIds == {Str(<<"1", "4", "3", "4", "7">>)}
VariantIds == {Str(<<"r", "s", "1", "2", "3">>), Str(<<>>), None}

Chromosome == Str(<<"1">>)
RegionStart == Num(1, 6)
RegionEnd == Num(11, 5)

\* A record whose p-value float() rejects
UnparsableRecord == Dict("pvalue" :> Str(<<"a", "b", "c">>))

OpRecords == {SigRecord, NonSigRecord, UnparsableRecord}

\* A body with the list l embedded under key
Embedded(key, l) == Dict("_embedded" :> Dict(key :> l))

\* What the upstream service may send with a success status for a list query:
\* a list, a list with a record that has no p-value, the digit-keyed mapping
\* of the summary-statistics API, a mapping with another key, no embedding, a
\* body that is no mapping, no JSON at all
ListBodies(key) ==
    {Embedded(key, List(l)) : l \in SeqsUpTo(OpRecords, MaxOpsLen)}
    \cup {Embedded(key, List(<<NoPvalueRecord, SigRecord>>)),
          Embedded(key, OrderedDict(<<"1", "0">>, ("0" :> SigRecord) @@ ("1" :> NonSigRecord))),
          Embedded(key, OrderedDict(<<"0", "total">>, ("0" :> SigRecord) @@ ("total" :> Num(1, 0)))),
          Dict(<<>>), List(<<>>), NotJson}

\* The keys and the scalar of the values handed to _remove_links
LinkKeys == {"_links", "data"}
LinkScalars == {Num(123, 0)}

RECURSIVE NestedValues(_)
\* The values nested at most n deep: scalars, mappings over LinkKeys and
\* lists of values nested less deep
NestedValues(n) ==
    IF n = 0 THEN LinkScalars
    ELSE LET below == NestedValues(n - 1)
         IN  below
             \cup {Dict(d) : d \in UNION {[K -> below] : K \in SUBSET LinkKeys}}
             \cup {List(l) : l \in SeqsUpTo(below, MaxLinksLen)}

\* The keys the extractor is asked for
ExtractorKeys == {"associations", "studies"}

\* What a body may hold under a key of _embedded: lists, mappings keyed by
\* digit strings (in and out of key order, and empty), mappings with a key
\* that is no decimal numeral, and values of other types
EmbeddedValues ==
    {List(l) : l \in ItemLists}
    \cup {OrderedDict(<<"1", "0">>, ("0" :> SigRecord) @@ ("1" :> NonSigRecord)),
          OrderedDict(<<"2", "10">>, ("2" :> NonSigRecord) @@ ("10" :> SigRecord)),
          OrderedDict(<<"0", "total">>, ("0" :> SigRecord) @@ ("total" :> Num(1, 0))),
          OrderedDict(<<"0", "^2">>, ("0" :> SigRecord) @@ ("^2" :> NonSigRecord)),
          OrderedDict(<<>>, <<>>),
          Str(<<"x">>), Num(1, 0), Bool(TRUE), None}

\* The bodies the extractor may be given: an embedding under one of the keys,
\* no embedding, an embedding that is no mapping, a body that is no mapping
ExtractorBodies ==
    {Embedded(k, v) : k \in ExtractorKeys, v \in EmbeddedValues}
    \cup {Dict(<<>>), Dict("_embedded" :> List(<<SigRecord>>)), Dict("_embedded" :> None),
          List(<<SigRecord>>), Str(<<"x">>), None}

\* An upstream error body
ErrorBody == Dict([error |-> Str(<<"Not Found">>), message |-> Str(<<"no such resource">>)])

\* The answer to a request for what the upstream service does not have
NotFound == [status_code |-> 404, body |-> ErrorBody]

ListAnswers(key) ==
    {[status_code |-> SUCCESS_STATUS_CODE, body |-> b] : b \in ListBodies(key)}
    \cup {NotFound}

\* The answers to the requests of a batch call
BatchAnswers ==
    {NotFound,
     [status_code |-> SUCCESS_STATUS_CODE, body |-> NotJson],
     [status_code |-> SUCCESS_STATUS_CODE, body |-> Embedded("associations", List(<<SigRecord>>))],
     [status_code |-> SUCCESS_STATUS_CODE,
      body |-> Embedded("associations", List(<<NonSigRecord, SigRecord>>))]}

\* What the upstream service may answer to a single-object lookup
LookupAnswers ==
    {[status_code |-> SUCCESS_STATUS_CODE,
      body |-> Dict(("name" :> Str(<<"x">>)) @@ ("_links" :> Links))],
     [status_code |-> SUCCESS_STATUS_CODE, body |-> List(<<>>)],
     [status_code |-> SUCCESS_STATUS_CODE, body |-> NotJson],
     NotFound,
     [status_code |-> 404, body |-> Dict([message |-> Str(<<"no such resource">>)])],
     [status_code |-> 404, body |-> List(<<>>)],
     [status_code |-> 404, body |-> NotJson]}

\* time.time(), in seconds
Clock == {17, 18}

\* The controls the list-style operations share; output_dir may be left out
ListControls ==
    [max_items_in_memory : 1..MaxThreshold,
     return_only_sig     : BOOLEAN,
     force_to_file       : BOOLEAN,
     output_dir          : {Omitted, DataDir},
     force_no_file       : BOOLEAN,
     remove_links        : {TRUE}]

\* The controls of get_trait_studies, which has no return_only_sig
StudiesControls ==
    [max_items_in_memory : 1..MaxThreshold,
     force_to_file       : BOOLEAN,
     output_dir          : {Omitted, DataDir},
     force_no_file       : BOOLEAN,
     remove_links        : {TRUE}]

\* top_n of the ranking operation
TopNs == 1..MaxThreshold

----------------------------------------------------------------------------
(* The state after start-up, and the calls *)

Init ==
    /\ environ \in {None, OverrideDir}
    /\ files = <<>>
    /\ gets = <<>>
    /\ resps = <<>>
    /\ call = [op |-> "none"]
    /\ ret = NoCall

\* A direct call of the Response Processor
Call_process_api_response ==
    /\ call.op = "none"
    /\ \E items \in ItemLists, max_items_in_memory \in Thresholds,
          return_only_sig \in BOOLEAN, remove_links \in BOOLEAN,
          output_dir \in OutputDirs, force_to_file \in BOOLEAN,
          force_no_file \in BOOLEAN, skip_gwas_significance \in BOOLEAN,
          uuid \in Uuids, writable \in BOOLEAN :
        LET a == [items                  |-> items,
                  request_url            |-> ProcessorUrl,
                  max_items_in_memory    |-> max_items_in_memory,
                  return_only_sig        |-> return_only_sig,
                  remove_links           |-> remove_links,
                  output_dir             |-> output_dir,
                  force_to_file          |-> force_to_file,
                  force_no_file          |-> force_no_file,
                  skip_gwas_significance |-> skip_gwas_significance]
            r == _process_api_response(a, files, environ, uuid, writable)
        IN  /\ Fresh(files, uuid)
            /\ call' = [op |-> "_process_api_response", args |-> a]
            /\ ret' = r.ret
            /\ files' = r.files
            /\ UNCHANGED <<environ, gets, resps>>

\* A call of the Significance Annotator
Call_add_gwas_significance ==
    /\ call.op = "none"
    /\ \E items \in SeqsUpTo(AnnotatorRecords, MaxAnnotLen) :
        /\ call' = [op |-> "_add_gwas_significance", args |-> [items |-> items]]
        /\ ret' = Returned(_add_gwas_significance(items))
        /\ UNCHANGED <<environ, files, gets, resps>>

\* A direct call of the Embedded-Item Extractor
Call_extract_embedded_items ==
    /\ call.op = "none"
    /\ \E data \in ExtractorBodies, key \in ExtractorKeys :
        /\ call' = [op |-> "_extract_embedded_items", args |-> [data |-> data, key |-> key]]
        /\ ret' = Returned(_extract_embedded_items(data, key))
        /\ UNCHANGED <<environ, files, gets, resps>>

\* A direct call of _remove_links
Call_remove_links ==
    /\ call.op = "none"
    /\ \E obj \in NestedValues(MaxDepth) :
        /\ call' = [op |-> "_remove_links", args |-> [obj |-> obj]]
        /\ ret' = Returned(_remove_links(obj))
        /\ UNCHANGED <<environ, files, gets, resps>>

\* _remove_links called on what the first call returned; what the first
\* returned is kept for comparison
Repeat_remove_links ==
    /\ call.op = "_remove_links"
    /\ "earlier" \notin DOMAIN call
    /\ call' = [op |-> "_remove_links", args |-> call.args, earlier |-> ret]
    /\ ret' = Returned(_remove_links(ret.value))
    /\ UNCHANGED <<environ, files, gets, resps>>

\* A second call of the Response Processor, given the inputs of the first; what
\* the first returned is kept for comparison
Repeat_process_api_response ==
    /\ call.op = "_process_api_response"
    /\ "earlier" \notin DOMAIN call
    /\ \E uuid \in Uuids, writable \in BOOLEAN :
        LET r == _process_api_response(call.args, files, environ, uuid, writable)
        IN  /\ Fresh(files, uuid)
            /\ call' = [op |-> "_process_api_response", args |-> call.args, earlier |-> ret]
            /\ ret' = r.ret
            /\ files' = r.files
            /\ UNCHANGED <<environ, gets, resps>>

\* The call of the operation op with the arguments o had the outcome r, the
\* upstream service answering the requests of the call with upstreams, in order
Finish(op, o, upstreams, r) ==
    /\ call' = [op |-> op, args |-> o]
    /\ ret' = r.ret
    /\ files' = r.files
    /\ gets' = gets \o r.gets
    /\ resps' = resps \o [i \in DOMAIN r.gets |-> Response(r.gets[i], upstreams[i])]
    /\ UNCHANGED environ

\* The same for a lookup, which writes no file
FinishLookup(op, o, upstream, r) ==
    Finish(op, o, <<upstream>>, [ret |-> r.ret, files |-> files, gets |-> r.gets])

Call_get_study ==
    /\ call.op = "none"
    /\ \E id \in StudyIds, remove_links \in BOOLEAN, upstream \in LookupAnswers, now \in Clock :
        LET o == [studyId |-> id, remove_links |-> remove_links]
        IN  FinishLookup("get_study", o, upstream, get_study(o, upstream, now))

Call_get_association ==
    /\ call.op = "none"
    /\ \E id \in AssociationIds, remove_links \in BOOLEAN, upstream \in LookupAnswers, now \in Clock :
        LET o == [associationId |-> id, remove_links |-> remove_links]
        IN  FinishLookup("get_association", o, upstream, get_association(o, upstream, now))

Call_get_variant ==
    /\ call.op = "none"
    /\ \E id \in VariantIds \ {None}, remove_links \in BOOLEAN, upstream \in LookupAnswers, now \in Clock :
        LET o == [variantId |-> id, remove_links |-> remove_links]
        IN  FinishLookup("get_variant", o, upstream, get_variant(o, upstream, now))

Call_get_trait ==
    /\ call.op = "none"
    /\ \E id \in EfoIds, remove_links \in BOOLEAN, upstream \in LookupAnswers, now \in Clock :
        LET o == [efoId |-> id, remove_links |-> remove_links]
        IN  FinishLookup("get_trait", o, upstream, get_trait(o, upstream, now))

Call_search_variants_in_region ==
    /\ call.op = "none"
    /\ \E id \in EfoIds, c \in ListControls, upstream \in ListAnswers("associations"),
          uuid \in Uuids, writable \in BOOLEAN :
        LET o == [chromosome |-> Chromosome, start |-> RegionStart, end |-> RegionEnd,
                  efo_id |-> id] @@ c
        IN  /\ Fresh(files, uuid)
            /\ Finish("search_variants_in_region", o, <<upstream>>,
                      search_variants_in_region(o, upstream, files, environ, uuid, writable))

Call_get_variants_from_efo_ids ==
    /\ call.op = "none"
    /\ \E ids \in EfoIdLists, c \in ListControls :
       \E upstreams \in [DOMAIN ids -> BatchAnswers], uuids \in [DOMAIN ids -> Uuids],
          writables \in [DOMAIN ids -> BOOLEAN] :
        LET o == [efo_ids |-> ids] @@ c
        IN  /\ \A i, j \in DOMAIN ids : (i # j) => (uuids[i] # uuids[j])
            /\ \A i \in DOMAIN ids : Fresh(files, uuids[i])
            /\ Finish("get_variants_from_efo_ids", o, upstreams,
                      get_variants_from_efo_ids(o, upstreams, files, environ, uuids, writables))

Call_trait_variant_ranking ==
    /\ call.op = "none"
    /\ \E id \in EfoIds, top_n \in TopNs, c \in ListControls,
          upstream \in ListAnswers("associations"), uuid \in Uuids, writable \in BOOLEAN :
        LET o == [efo_id |-> id, top_n |-> top_n] @@ c
        IN  /\ Fresh(files, uuid)
            /\ Finish("trait_variant_ranking", o, <<upstream>>,
                      trait_variant_ranking(o, upstream, files, environ, uuid, writable))

Call_get_study_associations ==
    /\ call.op = "none"
    /\ \E id \in StudyIds, c \in ListControls, upstream \in ListAnswers("associations"),
          uuid \in Uuids, writable \in BOOLEAN :
        LET o == [studyId |-> id] @@ c
        IN  /\ Fresh(files, uuid)
            /\ Finish("get_study_associations", o, <<upstream>>,
                      get_study_associations(o, upstream, files, environ, uuid, writable))

Call_get_trait_studies ==
    /\ call.op = "none"
    /\ \E id \in EfoIds, c \in StudiesControls, upstream \in ListAnswers("studies"),
          uuid \in Uuids, writable \in BOOLEAN :
        LET o == [efoId |-> id] @@ c
        IN  /\ Fresh(files, uuid)
            /\ Finish("get_trait_studies", o, <<upstream>>,
                      get_trait_studies(o, upstream, files, environ, uuid, writable))

Call_get_trait_associations ==
    /\ call.op = "none"
    /\ \E id \in EfoIds, c \in ListControls, upstream \in ListAnswers("associations"),
          uuid \in Uuids, writable \in BOOLEAN :
        LET o == [efoId |-> id] @@ c
        IN  /\ Fresh(files, uuid)
            /\ Finish("get_trait_associations", o, <<upstream>>,
                      get_trait_associations(o, upstream, files, environ, uuid, writable))

Call_get_region_trait_associations ==
    /\ call.op = "none"
    /\ \E id \in EfoIds, c \in ListControls, upstream \in ListAnswers("associations"),
          uuid \in Uuids, writable \in BOOLEAN :
        LET o == [chromosome |-> Chromosome, start |-> RegionStart, end |-> RegionEnd,
                  efo_id |-> id] @@ c
        IN  /\ Fresh(files, uuid)
            /\ Finish("get_region_trait_associations", o, <<upstream>>,
                      get_region_trait_associations(o, upstream, files, environ, uuid, writable))

Call_get_associations_from_variant ==
    /\ call.op = "none"
    /\ \E id \in VariantIds, c \in ListControls, upstream \in ListAnswers("associations"),
          uuid \in Uuids, writable \in BOOLEAN :
        LET o == [variantId |-> id] @@ c
        IN  /\ Fresh(files, uuid)
            /\ Finish("get_associations_from_variant", o, <<upstream>>,
                      get_associations_from_variant(o, upstream, files, environ, uuid, writable))

NextProcessor == Call_process_api_response

\* The twelve operations of the server
NextOperations ==
    \/ Call_get_study
    \/ Call_get_association
    \/ Call_get_variant
    \/ Call_get_trait
    \/ Call_search_variants_in_region
    \/ Call_get_variants_from_efo_ids
    \/ Call_trait_variant_ranking
    \/ Call_get_study_associations
    \/ Call_get_trait_studies
    \/ Call_get_trait_associations
    \/ Call_get_region_trait_associations
    \/ Call_get_associations_from_variant

SpecOperations == Init /\ [][NextOperations]_vars

NextAnnotator == Call_add_gwas_significance

SpecAnnotator == Init /\ [][NextAnnotator]_vars

SpecProcessor == Init /\ [][NextProcessor]_vars

\* Link stripping, once and then again on its own result
NextLinks ==
    \/ Call_remove_links
    \/ Repeat_remove_links

SpecLinks == Init /\ [][NextLinks]_vars

NextExtractor == Call_extract_embedded_items

SpecExtractor == Init /\ [][NextExtractor]_vars

\* The Response Processor called twice with equal inputs
NextRepeat ==
    \/ Call_process_api_response
    \/ Repeat_process_api_response

SpecRepeat == Init /\ [][NextRepeat]_vars

----------------------------------------------------------------------------
(* What the claims speak of *)

\* The last call was of the Response Processor and it returned an envelope
ProcessorReturned == call.op = "_process_api_response" /\ ret.kind = "return"

\* The count of surviving records an envelope reports, under either key
TotalOf(env) ==
    IF "total_items_aft_process" \in DOMAIN env THEN env.total_items_aft_process
    ELSE env.total_count

HasOutputFile(env) == "output_file" \in DOMAIN env.metadata

IsSignificantTrue(item) ==
    "is_gwas_significant" \in DOMAIN item.d /\ item.d["is_gwas_significant"] = Bool(TRUE)

\* The surviving set of a processor call, as the specification describes it:
\* the records left after significance filtering and link stripping, in order
SurvivingSet(a) ==
    LET annotated == IF a.skip_gwas_significance THEN a.items
                     ELSE _add_gwas_significance(a.items)
        kept == IF ~a.skip_gwas_significance /\ a.return_only_sig
                THEN SelectSeq(annotated, IsSignificantTrue)
                ELSE annotated
    IN  IF a.remove_links THEN [i \in DOMAIN kept |-> _remove_links(kept[i])] ELSE kept

\* The condition of the specification for spilling n surviving records
SpecSpills(a, n) ==
    (n > a.max_items_in_memory /\ ~a.force_no_file) \/ a.force_to_file

\* The first t records of s; none when t <= 0
FirstRecords(s, t) == SubSeq(s, 1, Min(t, Len(s)))

IsPrefix(s, t) == Len(s) <= Len(t) /\ s = SubSeq(t, 1, Len(s))

\* The last call wrote a file (the filesystem is empty at start-up), or the
\* File Spiller was entered and failed
SpillAttempted == DOMAIN files # {} \/ (ret.kind = "raise" /\ ret.exc = "OSError")

----------------------------------------------------------------------------
(* C1 .. C9: the Response Processor *)

\* C1: in every envelope the processor returns, is_complete is true exactly
\* when metadata has no output_file key, and exactly when len(items) equals
\* the reported total of surviving records.
C1_CompletenessEquivalence ==
    ProcessorReturned =>
        /\ ret.value.is_complete <=> ~HasOutputFile(ret.value)
        /\ ret.value.is_complete <=> (Len(ret.value.items) = TotalOf(ret.value))

\* C2: in every envelope the processor returns, items holds at most
\* max_items_in_memory records, whatever force_to_file and force_no_file are.
\* Stated for the thresholds of the contract, the positive integers.
C2_ItemsWithinThreshold ==
    (ProcessorReturned /\ call.args.max_items_in_memory >= 1) =>
        Len(ret.value.items) <= call.args.max_items_in_memory

\* C3: in every envelope the processor returns (inline, spilled, empty input,
\* empty after filtering), metadata.subset_size equals len(items).
C3_SubsetSizeIsLen ==
    ProcessorReturned => ret.value.metadata.subset_size = Len(ret.value.items)

\* A spilled envelope that holds fewer records than survived
C3_Witness_SpilledTruncated ==
    /\ ProcessorReturned
    /\ HasOutputFile(ret.value)
    /\ 0 < Len(ret.value.items)
    /\ Len(ret.value.items) < TotalOf(ret.value)

\* C4: with return_only_sig set and significance processing not skipped,
\* every returned record has is_gwas_significant == true, inline or spilled.
C4_OnlySignificantReturned ==
    (ProcessorReturned /\ call.args.return_only_sig /\ ~call.args.skip_gwas_significance) =>
        \A i \in DOMAIN ret.value.items : IsSignificantTrue(ret.value.items[i])

\* A filtered call whose input held a record flagged false and one flagged
\* null, and which returned a record
C4_Witness_FilteredMixedInput ==
    /\ ProcessorReturned
    /\ call.args.return_only_sig /\ ~call.args.skip_gwas_significance
    /\ \E i \in DOMAIN call.args.items : SignificanceFlag(call.args.items[i]) = Bool(FALSE)
    /\ \E i \in DOMAIN call.args.items : SignificanceFlag(call.args.items[i]) = None
    /\ ret.value.items # <<>>

C7_ForceNoFileNeverWrites ==
    (call.op = "_process_api_response" /\ call.args.force_no_file) => DOMAIN files = {}

C9_SpillFileHoldsAll ==
    (ProcessorReturned /\ DOMAIN files # {}) =>
        LET doc == files[ret.value.metadata.output_file]
        IN  /\ doc.request_url = call.args.request_url
            /\ doc.items = SurvivingSet(call.args)
            /\ IsPrefix(ret.value.items, doc.items)
            /\ Len(doc.items) = ret.value.total_items_aft_process

\* A spill after filtering and link stripping whose file holds more records
\* than the envelope
C9_Witness_FileLongerThanItems ==
    /\ ProcessorReturned
    /\ DOMAIN files # {}
    /\ call.args.return_only_sig /\ ~call.args.skip_gwas_significance
    /\ call.args.remove_links
    /\ Len(SurvivingSet(call.args)) < Len(call.args.items)
    /\ Len(files[ret.value.metadata.output_file].items) > Len(ret.value.items)
    /\ ret.value.items # <<>>

----------------------------------------------------------------------------
(* C5: the Significance Annotator *)

\* The p-value of a record as the specification reads it: the first of the
\* fields pvalue, p_value whose value is not null
PvalueOf(item) ==
    IF Get(item.d, "pvalue") # None THEN Get(item.d, "pvalue") ELSE Get(item.d, "p_value")

\* The flag the specification gives a record
SpecFlag(item) ==
    LET p == FloatOf(PvalueOf(item))
    IN  IF p.ok THEN Bool(LeqThreshold(p)) ELSE None

\* C5: after the annotator runs, a record whose p-value is present and parses
\* as a number (zero included, given as a number or as a string) has
\* is_gwas_significant == (p-value <= 5e-8); a record whose p-value is absent
\* or does not parse has is_gwas_significant == null.
C5_FlagFollowsPvalue ==
    (call.op = "_add_gwas_significance" /\ ret.kind = "return") =>
        /\ Len(ret.value) = Len(call.args.items)
        /\ \A i \in DOMAIN ret.value :
               ret.value[i].d["is_gwas_significant"] = SpecFlag(call.args.items[i])

----------------------------------------------------------------------------
(* C10: the operations that take a trait identifier *)

\* The trait identifiers a request carries: in its path efoTraits/{id}, and in
\* its query parameter efoTrait
EfoIdsCarried(url) ==
    (IF url.resource = "efoTraits" THEN {url.id} ELSE {})
    \cup (IF "efoTrait" \in DOMAIN url.params THEN {url.params["efoTrait"]} ELSE {})

\* 'EFO_' followed by one or more decimal digits, and nothing else
MatchesEfoPattern(id) ==
    /\ id.t = "str"
    /\ Len(id.s) >= 5
    /\ SubSeq(id.s, 1, 4) = <<"E", "F", "O", "_">>
    /\ \A i \in 5..Len(id.s) : id.s[i] \in Digits

\* C10: every operation that takes a trait identifier validates it before the
\* upstream request, so no GET is ever issued that carries a string identifier
\* not of the form 'EFO_' followed by one or more digits.
C10_NoMalformedEfoReachesUpstream ==
    \A i \in DOMAIN gets : \A id \in EfoIdsCarried(gets[i]) :
        id.t = "str" => MatchesEfoPattern(id)

----------------------------------------------------------------------------
(* C11: the outcome of a failed validation *)

\* The trait identifiers the last call handed to the EFO validator
ValidatedEfoIds ==
    CASE call.op = "search_variants_in_region" ->
             IF Truthy(call.args.efo_id) THEN {call.args.efo_id} ELSE {}
      [] call.op = "get_variants_from_efo_ids" ->
             {call.args.efo_ids[i] : i \in DOMAIN call.args.efo_ids}
      [] call.op \in {"trait_variant_ranking", "get_region_trait_associations"} ->
             {call.args.efo_id}
      [] OTHER -> {}

\* An identifier-shaped input of the last call failed its validation: a trait
\* identifier the validator saw is malformed, or the variant identifier of
\* get_associations_from_variant is missing
FailsValidation ==
    \/ \E id \in ValidatedEfoIds : ~MatchesEfoPattern(id)
    \/ call.op = "get_associations_from_variant" /\ ~Truthy(call.args.variantId)

\* r is a returned object with an `error` key
StructuredError(r) ==
    /\ r.kind = "return"
    /\ "t" \in DOMAIN r.value
    /\ r.value.t = "dict"
    /\ "error" \in DOMAIN r.value.d

\* C11: when an identifier-shaped input fails validation, the operation makes
\* no upstream call and returns a structured error object as a value; it never
\* raises.
C11_ValidationFailureIsStructured ==
    FailsValidation => gets = <<>> /\ StructuredError(ret)

----------------------------------------------------------------------------
(* C12: the batch-by-trait operation *)

\* The last call was a batch call whose identifiers all pass the validator
BatchCalled ==
    /\ call.op = "get_variants_from_efo_ids"
    /\ \A i \in DOMAIN call.args.efo_ids : MatchesEfoPattern(call.args.efo_ids[i])

\* The canonical empty envelope for the request url under the controls o
CanonicalEmpty(url, o) ==
    [request_url |-> url,
     items       |-> <<>>,
     total_count |-> 0,
     is_complete |-> TRUE,
     metadata    |-> [subset_size         |-> 0,
                      max_items_in_memory |-> o.max_items_in_memory,
                      return_only_sig     |-> o.return_only_sig]]

\* v is an envelope for the request url
EnvelopeFor(v, url) ==
    /\ {"request_url", "items", "is_complete", "metadata"} \subseteq DOMAIN v
    /\ v.request_url = url

\* C12: in a batch call a failure on one identifier never aborts the others:
\* the call returns a result with an entry for every identifier of the list,
\* one request having been made for each; the entry of an identifier whose
\* request failed is the canonical empty envelope, and every other entry is
\* the envelope of its own request. (Of an identifier listed twice, the entry
\* is that of its last request.)
C12_BatchDegradesIndependently ==
    BatchCalled =>
        LET ids == call.args.efo_ids
        IN  /\ ret.kind = "return"
            /\ Len(resps) = Len(ids)
            /\ DOMAIN ret.value = {ids[i] : i \in DOMAIN ids}
            /\ \A i \in DOMAIN ids :
                 (\A j \in DOMAIN ids : j > i => ids[j] # ids[i]) =>
                    IF resps[i].status_code # SUCCESS_STATUS_CODE \/ resps[i].body.t = "notjson"
                    THEN ret.value[ids[i]] = CanonicalEmpty(resps[i].url, call.args)
                    ELSE EnvelopeFor(ret.value[ids[i]], resps[i].url)

----------------------------------------------------------------------------
(* C13: a non-success status in a list-style operation *)

\* The list-style operations that make one request
SingleListOps ==
    {"search_variants_in_region", "trait_variant_ranking", "get_study_associations",
     "get_trait_studies", "get_trait_associations", "get_region_trait_associations",
     "get_associations_from_variant"}

\* The controls of the last call, return_only_sig false where the operation
\* has no such parameter
ControlsOf(o) ==
    IF "return_only_sig" \in DOMAIN o THEN o ELSE o @@ [return_only_sig |-> FALSE]

\* The i-th response of the last call had a non-success status
Refused(i) == i \in DOMAIN resps /\ resps[i].status_code # SUCCESS_STATUS_CODE

\* The spill files are no more than the requests that were not refused
NoSpillOfRefused ==
    Cardinality(DOMAIN files) <= Cardinality({i \in DOMAIN resps : ~Refused(i)})

\* C13: a list-style operation turns a non-success status into exactly the
\* canonical empty envelope built from the effective URL, makes no second
\* request and writes no spill file, force_to_file or not. In a batch call
\* that returns, this holds of the entry of each identifier.
C13_RefusedGivesCanonicalEmpty ==
    /\ (call.op \in SingleListOps /\ Refused(1)) =>
          /\ ret = Returned(CanonicalEmpty(resps[1].url, ControlsOf(call.args)))
          /\ Len(gets) = 1 /\ Len(resps) = 1
          /\ files = <<>>
    /\ (BatchCalled /\ ret.kind = "return") =>
          /\ Len(gets) = Len(call.args.efo_ids)
          /\ NoSpillOfRefused
          /\ \A i \in DOMAIN call.args.efo_ids :
               (Refused(i) /\ \A j \in DOMAIN resps : j > i => resps[j].url # resps[i].url) =>
                  ret.value[call.args.efo_ids[i]] = CanonicalEmpty(resps[i].url, call.args)

\* A refused request of a call that asked for the spill file
C13_Witness_RefusedWithForceToFile ==
    /\ call.op \in SingleListOps /\ Refused(1)
    /\ call.args.force_to_file
    /\ ret.kind = "return" /\ ret.value.items = <<>>

----------------------------------------------------------------------------
(* C14: the echo of the requested identifier *)

LookupOps == {"get_study", "get_association", "get_variant", "get_trait"}

\* The identifier the last lookup was called with
RequestedId ==
    CASE call.op = "get_study"       -> call.args.studyId
      [] call.op = "get_association" -> call.args.associationId
      [] call.op = "get_variant"     -> call.args.variantId
      [] call.op = "get_trait"       -> call.args.efoId

\* The returned object carries the requested identifier in a field of its own
Echoed ==
    /\ ret.value.t = "dict"
    /\ \E k \in DOMAIN ret.value.d : ret.value.d[k] = RequestedId

\* C14: the object a single-object lookup returns (a JSON object, as the
\* upstream service sends for one resource) carries an echo of the requested
\* identifier if and only if the transport status was success.
C14_EchoIffSuccess ==
    (call.op \in LookupOps /\ ret.kind = "return" /\ ret.value.t = "dict") =>
        (Echoed <=> resps[1].status_code = SUCCESS_STATUS_CODE)

----------------------------------------------------------------------------
(* C15: the ranking operation *)

\* The items the Embedded-Item Extractor takes from the response of the last
\* call
Extracted == _extract_embedded_items(resps[1].body, "associations")

\* The last call was of the ranking operation, and it handed a list to the
\* Response Processor and returned its envelope
RankingProcessed ==
    /\ call.op = "trait_variant_ranking"
    /\ ret.kind = "return"
    /\ Len(resps) = 1 /\ ~Refused(1)
    /\ Extracted # <<>>

\* The parsed p-value of a record; a record without one ranks last
ParsedPvalue(x) ==
    IF "pvalue" \in DOMAIN x.d THEN FloatOf(x.d["pvalue"]) ELSE [ok |-> TRUE, k |-> "inf"]

ParsedPvalues(s) == [i \in DOMAIN s |-> ParsedPvalue(s[i])]

\* ks is in non-decreasing order
NonDecreasing(ks) == \A i, j \in DOMAIN ks : i < j => ~FloatLess(ks[j], ks[i])

\* The parsed p-values of the first n of the records e in ascending order
TopPvalues(e, n) ==
    LET perms == {f \in [DOMAIN e -> DOMAIN e] : \A i, j \in DOMAIN e : i # j => f[i] # f[j]}
        sorted == CHOOSE f \in perms : NonDecreasing([i \in DOMAIN e |-> ParsedPvalue(e[f[i]])])
    IN  [i \in 1..Min(n, Len(e)) |-> ParsedPvalue(e[sorted[i]])]

\* The records of e with a p-value that is there and not empty or zero
HavingPvalue(e) == SelectSeq(e, LAMBDA x : Truthy(Get(x.d, "pvalue")))

\* Every record the processor let through in the last call: what it wrote to
\* the spill file when it spilled, else the items of the envelope
Survivors ==
    IF HasOutputFile(ret.value) THEN files[ret.value.metadata.output_file].items
    ELSE ret.value.items

\* What the ranking operation returns when the list handed to the processor
\* is the first top_n of the records e in ascending order of p-value
RankedFrom(e) ==
    LET o == call.args
        handed == TopPvalues(e, o.top_n)
        passing == IF o.return_only_sig THEN SelectSeq(handed, LeqThreshold) ELSE handed
    IN  /\ ret.value.metadata.total_items = Len(handed)
        /\ ParsedPvalues(Survivors) = passing
        /\ TotalOf(ret.value) = Len(passing)
        /\ NonDecreasing(ParsedPvalues(ret.value.items))
        /\ Len(ret.value.items) <= o.top_n
        /\ HasOutputFile(ret.value) <=> (passing # <<>> /\ SpecSpills(o, Len(passing)))
        /\ ret.value.is_complete <=> ~HasOutputFile(ret.value)

----------------------------------------------------------------------------
(* C16: a p-value that does not parse *)

\* The single-request operations that read p-values
PvalueOps == SingleListOps \ {"get_trait_studies"}

\* The p-value field of x is there and does not parse as a number
UnparsablePvalue(x) ==
    /\ "pvalue" \in DOMAIN x.d
    /\ x.d["pvalue"].t # "none"
    /\ ~FloatOf(x.d["pvalue"]).ok

\* The last call read a p-value that does not parse
ReadUnparsable ==
    /\ call.op \in PvalueOps
    /\ Len(resps) = 1 /\ ~Refused(1)
    /\ \E i \in DOMAIN Extracted : UnparsablePvalue(Extracted[i])

\* C16: a record whose p-value is present but does not parse never makes an
\* operation that reads p-values fail, the sort of the ranking operation
\* included: the operation returns an envelope (unless writing the spill file
\* fails), and in it the flag of such a record is null.
C16_UnparsableNeverEscalates ==
    ReadUnparsable =>
        /\ ret.kind = "raise" => ret.exc = "OSError"
        /\ ret.kind = "return" =>
             \A i \in DOMAIN ret.value.items :
                UnparsablePvalue(ret.value.items[i]) =>
                    ret.value.items[i].d["is_gwas_significant"] = None

----------------------------------------------------------------------------
(* C17: two calls of the Response Processor with equal inputs *)

\* The Response Processor was called twice with equal inputs and returned
\* both times
ReturnedTwice ==
    /\ call.op = "_process_api_response"
    /\ "earlier" \in DOMAIN call
    /\ call.earlier.kind = "return" /\ ret.kind = "return"

\* The envelope env without the name of its spill file
WithoutOutputFile(env) ==
    [env EXCEPT !.metadata = [k \in (DOMAIN @) \ {"output_file"} |-> @[k]]]

\* C17 as stated: two calls of the Response Processor given equal inputs
\* return equal envelopes, including when the result is spilled.
C17_EqualInputsEqualEnvelopes == ReturnedTwice => ret.value = call.earlier.value

\* C17: two calls of the Response Processor given equal inputs return
\* envelopes that are equal but for metadata.output_file; when the result is
\* spilled each call writes a file of its own, and the two files hold equal
\* documents.
C17_EqualButForOutputFile ==
    ReturnedTwice =>
        /\ WithoutOutputFile(ret.value) = WithoutOutputFile(call.earlier.value)
        /\ HasOutputFile(ret.value) <=> HasOutputFile(call.earlier.value)
        /\ HasOutputFile(ret.value) =>
             /\ ret.value.metadata.output_file # call.earlier.value.metadata.output_file
             /\ files[ret.value.metadata.output_file]
                    = files[call.earlier.value.metadata.output_file]

\* Two spilling calls with equal inputs
C17_Witness_SpilledTwice ==
    /\ ReturnedTwice
    /\ HasOutputFile(ret.value)
    /\ Cardinality(DOMAIN files) = 2

----------------------------------------------------------------------------
(* C18: the spill directory of a call that leaves out output_dir *)

ListOps == SingleListOps \cup {"get_variants_from_efo_ids"}

\* What the spill-directory default provider returns: the configured
\* override, and the system temporary directory when there is none
ProviderDir == IF environ = None THEN TmpDir ELSE environ

\* C18: when the caller of a list-style operation leaves out output_dir, every
\* spill file of the call is written in the directory the spill-directory
\* default provider returns, so that a configured override is honoured.
C18_OmittedOutputDirUsesProvider ==
    (call.op \in ListOps /\ call.args.output_dir = Omitted) =>
        \A f \in DOMAIN files : f.dir = ProviderDir

----------------------------------------------------------------------------
(* C19: which of the two p-value fields the annotator reads *)

\* The flag the annotator gives a record that has the field pvalue alone,
\* holding v
FlagOfPvalueAlone(v) == SignificanceFlag(Dict("pvalue" :> v))

\* C19: whenever the field pvalue of a record is present and not null (an
\* empty string, an unparsable string and the number zero included), the
\* annotator computes the flag from pvalue alone: the record gets the flag it
\* would get without its field p_value.
C19_FirstNonNullWins ==
    (call.op = "_add_gwas_significance" /\ ret.kind = "return") =>
        \A i \in DOMAIN call.args.items :
            LET item == call.args.items[i]
            IN  ("pvalue" \in DOMAIN item.d /\ item.d["pvalue"] # None) =>
                    ret.value[i].d["is_gwas_significant"] = FlagOfPvalueAlone(item.d["pvalue"])

----------------------------------------------------------------------------
(* C20: the Embedded-Item Extractor *)

\* The value at _embedded[key] of a body, where the body and its embedding
\* are mappings and the key is there
EmbeddedAt(data, key) ==
    IF /\ data.t = "dict"
       /\ "_embedded" \in DOMAIN data.d
       /\ data.d["_embedded"].t = "dict"
       /\ key \in DOMAIN data.d["_embedded"].d
    THEN [found |-> TRUE, v |-> data.d["_embedded"].d[key]]
    ELSE [found |-> FALSE]

\* The values of the mapping v in its iteration order
InIterationOrder(v) == [i \in DOMAIN v.order |-> v.d[v.order[i]]]

\* What the extractor returns when a mapping counts as digit-keyed if every
\* one of its keys satisfies IsNumeral
ExtractsAs(data, key, IsNumeral(_)) ==
    LET at == EmbeddedAt(data, key)
    IN  IF ~at.found THEN <<>>
        ELSE IF at.v.t = "list" THEN at.v.l
        ELSE IF at.v.t = "dict" /\ \A k \in DOMAIN at.v.d : IsNumeral(Spell(k))
        THEN InIterationOrder(at.v)
        ELSE <<>>

\* A non-empty string of the decimal digits 0..9
DecimalNumeral(s) == s # <<>> /\ \A i \in DOMAIN s : s[i] \in Digits

\* A non-empty string of digit characters: the decimal digits, and the other
\* characters of the Unicode digit class, such as superscripts
DigitClassNumeral(s) == s # <<>> /\ \A i \in DOMAIN s : s[i] \in Digits \cup {SuperscriptTwo}

ExtractorReturned == call.op = "_extract_embedded_items"

\* C20 as stated: the extractor never fails and returns the list at
\* _embedded[key] unchanged, the values in iteration order of a mapping whose
\* every key is a decimal-digit string, and an empty sequence in every other
\* case.
C20_Extracts_DecimalKeys ==
    ExtractorReturned =>
        /\ ret.kind = "return"
        /\ ret.value = ExtractsAs(call.args.data, call.args.key, DecimalNumeral)

\* C20: the extractor never fails and returns the list at _embedded[key]
\* unchanged, the values in iteration order of a mapping whose every key is a
\* non-empty string of digit characters (decimal digits, and other characters
\* of the Unicode digit class), and an empty sequence in every other case.
C20_Extracts ==
    ExtractorReturned =>
        /\ ret.kind = "return"
        /\ ret.value = ExtractsAs(call.args.data, call.args.key, DigitClassNumeral)

\* A digit-keyed mapping whose iteration order is not the order of its keys
C20_Witness_MappingInIterationOrder ==
    /\ ExtractorReturned
    /\ EmbeddedAt(call.args.data, call.args.key).found
    /\ EmbeddedAt(call.args.data, call.args.key).v.t = "dict"
    /\ ret.value = <<NonSigRecord, SigRecord>>

----------------------------------------------------------------------------
(* C21: link stripping *)

RECURSIVE HasLinks(_)
\* The value v has a '_links' key at some nesting depth
HasLinks(v) ==
    IF v.t = "dict"
    THEN "_links" \in DOMAIN v.d \/ \E k \in DOMAIN v.d : HasLinks(v.d[k])
    ELSE IF v.t = "list" THEN \E i \in DOMAIN v.l : HasLinks(v.l[i])
    ELSE FALSE

\* C21: link stripping is idempotent and complete: what _remove_links returns
\* has no '_links' key at any nesting depth, and stripping that again gives it
\* unchanged.
C21_RemoveLinksIdempotent ==
    call.op = "_remove_links" =>
        /\ ret.kind = "return"
        /\ ~HasLinks(ret.value)
        /\ "earlier" \in DOMAIN call => ret = call.earlier

\* A value with '_links' only below its top level, stripped twice
C21_Witness_NestedLinksStrippedTwice ==
    /\ call.op = "_remove_links"
    /\ "earlier" \in DOMAIN call
    /\ call.args.obj.t = "dict"
    /\ "_links" \notin DOMAIN call.args.obj.d
    /\ HasLinks(call.args.obj)
    /\ ret.value # call.args.obj

----------------------------------------------------------------------------
(* C22: the Response Processor with nothing surviving *)

\* C22: when the surviving set is empty (the input list is empty, or
\* return_only_sig removes every record) the processor writes no file and
\* returns an envelope with is_complete true, no items and no output_file
\* key, force_to_file set or not.
C22_EmptySurvivingNeverSpills ==
    (call.op = "_process_api_response" /\ SurvivingSet(call.args) = <<>>) =>
        /\ ret.kind = "return"
        /\ DOMAIN files = {}
        /\ ret.value.is_complete
        /\ ret.value.items = <<>>
        /\ ~HasOutputFile(ret.value)

\* force_to_file set, force_no_file not, and a non-empty input of which the
\* filter leaves nothing
C22_Witness_ForcedButFilteredEmpty ==
    /\ ProcessorReturned
    /\ call.args.force_to_file /\ ~call.args.force_no_file
    /\ call.args.items # <<>>
    /\ SurvivingSet(call.args) = <<>>
    /\ ret.value.is_complete

----------------------------------------------------------------------------
(* C23: the batch operation validates the whole list first *)

\* The identifiers of the last batch call that the EFO validator rejects
RejectedByValidator ==
    {i \in DOMAIN call.args.efo_ids : ~validate_efo_id(call.args.efo_ids[i])}

\* C23: in the batch-by-trait operation every identifier of the list is
\* validated before the first upstream request: when the validator rejects
\* any identifier of the list, wherever it stands, the call raises without a
\* single upstream GET, for the valid identifiers as for the others, and
\* without writing a file.
C23_BatchValidatesWholeListFirst ==
    (call.op = "get_variants_from_efo_ids" /\ RejectedByValidator # {}) =>
        /\ ret = Raised("ValueError")
        /\ gets = <<>>
        /\ resps = <<>>
        /\ DOMAIN files = {}

\* A well-formed identifier ahead of a malformed one, force_to_file set, and
\* no request made for either
C23_Witness_ValidAheadOfMalformed ==
    /\ call.op = "get_variants_from_efo_ids"
    /\ Len(call.args.efo_ids) = 2
    /\ RejectedByValidator = {2}
    /\ MatchesEfoPattern(call.args.efo_ids[1])
    /\ call.args.force_to_file
    /\ gets = <<>>

====
